---------------------------- MODULE Spec2Model ----------------------------
(***************************************************************************)
(* Model of the line parser of the tag format (parseLine.ts): the          *)
(* generator parse(str, tags) that turns a text and a token stream over    *)
(* that text into tag mappings, the tokenizer lex(str), their composition  *)
(* parseDefault(str), and the input builders of the property tests         *)
(* (parseLine.arbitrary.ts).                                               *)
(*                                                                         *)
(* A string is a sequence of code units; a code unit is one of the short   *)
(* names below.  Offsets are 0-based and spans half-open, as in the        *)
(* source; Substring does the conversion to 1-based sequences.             *)
(***************************************************************************)
EXTENDS Integers, Sequences, FiniteSets, TLC

VARIABLES
    str,        \* parse's first argument, the raw text
    tags,       \* parse's second argument, the token stream
    tree,       \* Some(the FakeTree the input was built from), or Null
    pos,        \* number of tokens the for-loop has pulled from tags
    linum,      \* parse's local linum
    lineStart,  \* parse's local lineStart
    s,          \* parse's local s, the line state
    wsStack,    \* parse's local wsStack
    out,        \* the records yielded so far, in order
    err,        \* the error thrown, if any
    pc,         \* where the generator parse stands ("idle": not called)
    last,       \* lex's local last
    lastIndex,  \* re_lexer.lastIndex
    lexed,      \* the tokens lex has yielded so far, in order
    lexpc,      \* where the generator lex stands ("idle": not called)
    other       \* Some(the arguments and locals of a second invocation, not
                \* the one being advanced), or Null

lexVars == <<last, lastIndex, lexed, lexpc>>

parseVars == <<tags, tree, pos, linum, lineStart, s, wsStack, out, err, pc>>

vars == <<str, parseVars, lexVars, other>>

-----------------------------------------------------------------------------
(* Bounds of the model *)

MaxTokens == 5   \* longest token stream of the free-form inputs
MaxLines  == 4   \* most lines of the indentation inputs
MaxRest   == 2   \* most <ws><nonws> pairs after the label of a line tail
MaxNodes  == 4   \* most nodes of a generated forest
MaxText   == 5   \* longest text of the common code units given to lex
MaxShort  == 2   \* longest text of any code units given to lex
MaxDefault == 4  \* longest text given to parseDefault
MaxPair   == 3   \* longest text of the first of two invocations
MaxOther  == 2   \* longest text of the second of two invocations

-----------------------------------------------------------------------------
(* Strings *)

Min(a, b) == IF a < b THEN a ELSE b
Max(a, b) == IF a > b THEN a ELSE b

\* String.prototype.substring(start, end): both indices are clamped to
\* [0, length] and swapped when start > end.
Substring(text, start, end) ==
    LET a  == Max(0, Min(start, Len(text)))
        b  == Max(0, Min(end, Len(text)))
        lo == Min(a, b)
        hi == Max(a, b)
    IN  SubSeq(text, lo + 1, hi)

\* String.prototype.startsWith(prefix)
StartsWith(text, prefix) ==
    /\ Len(prefix) <= Len(text)
    /\ SubSeq(text, 1, Len(prefix)) = prefix

\* An absent value (null) and a present one
Null == <<>>
Some(x) == <<x>>

NoError == [kind |-> "none"]


-----------------------------------------------------------------------------
(* The input builders of the property tests *)

NlTexts    == {<<"LF">>, <<"CR", "LF">>}
WsTexts    == {<<"SP">>, <<"TB", "SP">>}
NonwsTexts == {<<"a">>, <<"b", "b">>}

\* FakeToken: a tag and the text the token stands for
FakeToken(tag, text) == [tag |-> tag, str |-> text]

FakeTokens ==
    {FakeToken("nl", t) : t \in NlTexts}
        \cup {FakeToken("ws", t) : t \in WsTexts}
        \cup {FakeToken("nonws", t) : t \in NonwsTexts}

\* Accumulator.raw after appending the fake tokens fs in order
RECURSIVE Raw(_)
Raw(fs) ==
    IF fs = <<>> THEN <<>>
    ELSE Raw(SubSeq(fs, 1, Len(fs) - 1)) \o fs[Len(fs)].str

\* Accumulator.tokens after appending the fake tokens fs in order: every
\* token spans the text its fake token added to raw
Tokens(fs) ==
    [i \in 1..Len(fs) |->
        [tag   |-> fs[i].tag,
         start |-> Len(Raw(SubSeq(fs, 1, i - 1))),
         end   |-> Len(Raw(SubSeq(fs, 1, i)))]]

\* The lexer invariant the tests state of every generated input
LexerInvariant(text, l) ==
    /\ Len(l) > 0 => l[1].start = 0 /\ l[Len(l)].end = Len(text)
    /\ \A i \in 1..Len(l) : l[i].end > l[i].start
    /\ \A i \in 1..(Len(l) - 1) :
        /\ l[i].end = l[i + 1].start
        /\ ~(l[i].tag = "ws" /\ l[i + 1].tag = "ws")
        /\ ~(l[i].tag = "nonws" /\ l[i + 1].tag = "nonws")

\* Fake token sequences of at most n tokens with no two adjacent <ws> and no
\* two adjacent <nonws>
RECURSIVE Streams(_)
Streams(n) ==
    IF n = 0 THEN {<<>>}
    ELSE LET shorter == Streams(n - 1)
         IN  shorter \cup
             {Append(fs, t) : <<fs, t>> \in
                {p \in shorter \X FakeTokens :
                    /\ Len(p[1]) = n - 1
                    /\ \/ p[1] = <<>>
                       \/ p[2].tag = "nl"
                       \/ p[1][Len(p[1])].tag # p[2].tag}}

TokenInputs == Streams(MaxTokens)

\* Lines of one label each, every line with any leading whitespace or none
\* and a line break: the inputs that exercise the whitespace stack
IndentTexts == {<<"SP">>, <<"TB">>, <<"SP", "SP">>, <<"SP", "TB">>}

IndentedLines ==
    {<<FakeToken("nonws", <<"a">>), FakeToken("nl", <<"LF">>)>>}
        \cup {<<FakeToken("ws", w), FakeToken("nonws", <<"a">>),
                FakeToken("nl", <<"LF">>)>> : w \in IndentTexts}

RECURSIVE LineStreams(_)
LineStreams(n) ==
    IF n = 0 THEN {<<>>}
    ELSE LET shorter == LineStreams(n - 1)
         IN  shorter \cup
             {p[1] \o p[2] : p \in
                {q \in shorter \X IndentedLines : Len(q[1]) >= 2 * (n - 1)}}

LineInputs == LineStreams(MaxLines)

\* FakeLineTail.rest: at most n pairs of a <ws> and a <nonws>
RECURSIVE Rests(_)
Rests(n) ==
    IF n = 0 THEN {<<>>}
    ELSE LET shorter == Rests(n - 1)
         IN  shorter \cup
             {p[1] \o <<FakeToken("ws", p[2]), FakeToken("nonws", p[3])>> :
                p \in {q \in shorter \X WsTexts \X NonwsTexts :
                            Len(q[1]) = 2 * (n - 1)}}

\* FakeLineTail: one line without its leading whitespace, <nonws> (<ws>
\* <nonws>)* <ws>?, here with or without a line break after it
TailInputs ==
    {<<FakeToken("nonws", l)>> \o r \o tr \o e :
        l \in NonwsTexts,
        r \in Rests(MaxRest),
        tr \in {<<>>} \cup {<<FakeToken("ws", w)>> : w \in WsTexts},
        e \in {<<>>} \cup {<<FakeToken("nl", n)>> : n \in NlTexts}}

-----------------------------------------------------------------------------
(* FakeTree: a forest of lines, flattened in pre-order *)

\* A FakeNesting in pre-order: its depth, the <ws> its children add to the
\* prefix of their ancestors (subtree.prefix; Null without children), its
\* line and the line breaks after it.
FakeNesting(depth, prefix, line, post) ==
    [depth |-> depth, prefix |-> prefix, line |-> line, post |-> post]

\* forEachChild: the total prefix of node i, the prefixes of its ancestors
\* in order
RECURSIVE TotalPrefix(_, _)
TotalPrefix(nodes, i) ==
    IF nodes[i].depth = 0 THEN <<>>
    ELSE LET parent == CHOOSE j \in 1..(i - 1) :
                         /\ nodes[j].depth = nodes[i].depth - 1
                         /\ \A k \in (j + 1)..(i - 1) : nodes[k].depth >= nodes[i].depth
         IN  TotalPrefix(nodes, parent) \o nodes[parent].prefix[1]

\* FakeNesting.accumulateTo for the node i and, by recursion, the nodes
\* before it: the leading <ws> of a child, the line, and the line breaks
\* unless dropLast drops them after the very last line
RECURSIVE AccumulateNodes(_, _, _)
AccumulateNodes(nodes, i, dropLast) ==
    IF i = 0 THEN <<>>
    ELSE AccumulateNodes(nodes, i - 1, dropLast)
            \o (IF nodes[i].depth = 0 THEN <<>>
                ELSE <<FakeToken("ws", TotalPrefix(nodes, i))>>)
            \o nodes[i].line
            \o (IF dropLast /\ i = Len(nodes) THEN <<>> ELSE nodes[i].post)

\* FakeTree.accumulateTo without error injection
Accumulate(t) ==
    t.prefix \o AccumulateNodes(t.toplevel, Len(t.toplevel), t.dropLast)

\* walkTreeNesting: the depths of the nodes in pre-order
WalkTreeNesting(t) == [i \in 1..Len(t.toplevel) |-> t.toplevel[i].depth]

\* One more FakeNesting after the forest f, in pre-order: a root, a sibling
\* of the last node or of one of its ancestors, or the first child of the
\* last node, which then gets the <ws> of its children
LeafNode(depth) ==
    FakeNesting(depth, Null, <<FakeToken("nonws", <<"a">>)>>,
                <<FakeToken("nl", <<"LF">>)>>)

Grow(f) ==
    IF f = <<>> THEN {<<LeafNode(0)>>}
    ELSE {Append(f, LeafNode(k)) : k \in 0..f[Len(f)].depth}
            \cup {Append([f EXCEPT ![Len(f)].prefix = Some(w)],
                         LeafNode(f[Len(f)].depth + 1)) : w \in WsTexts}

\* The forests of exactly n nodes
RECURSIVE Forests(_)
Forests(n) ==
    IF n = 0 THEN {<<>>}
    ELSE UNION {Grow(f) : f \in Forests(n - 1)}

\* One blank line: empty, or of whitespace only
BlankLines ==
    {<<FakeToken("nl", <<"LF">>)>>,
     <<FakeToken("ws", <<"SP", "SP">>), FakeToken("nl", <<"LF">>)>>}

\* The trees of n nodes: any forest, with at most one blank line, before
\* the first line (the prefix of the file) or after any line (in its post),
\* and with or without the line breaks after the last line
TreesOf(n) ==
    {[prefix   |-> IF b[1] = 0 THEN b[2] ELSE <<>>,
      toplevel |-> [i \in 1..n |->
                      IF b[1] = i
                      THEN [f[i] EXCEPT !.post = f[i].post \o b[2]]
                      ELSE f[i]],
      dropLast |-> dl] :
        f \in Forests(n),
        b \in ((0..n) \X BlankLines) \cup {<<n + 1, <<>>>>},
        dl \in BOOLEAN}

TreeInputs == UNION {TreesOf(n) : n \in 0..MaxNodes}

-----------------------------------------------------------------------------
(* parse: the helpers closed over its locals *)

Top(stack) == stack[Len(stack)]
Pop(stack) == SubSeq(stack, 1, Len(stack) - 1)

\* hasLabel(), were a line to count only once it has a mapping
HasLabelMappingOnly(st) == st.state = "Mapping" \/ st.state = "MappingWs"

\* hasLabel()
HasLabel(st) == st.state # "LineBreak" /\ st.state # "BeginWs"

\* marshal(end), were a line in state LabelWs to have a mapping too, from
\* mappingStart to the end of the line
MarshalFromLabelWs(text, ln, ls, st, end) ==
    [linum   |-> ln,
     line    |-> [start |-> ls, end |-> end],
     nesting |-> st.nesting,
     label   |-> st.label,
     mapping |-> IF st.state = "Mapping" \/ st.state = "MappingWs"
                 THEN Some(Substring(text, st.mappingStart, st.mappingEnd))
                 ELSE IF st.state = "LabelWs"
                      THEN Some(Substring(text, st.mappingStart, end))
                 ELSE Null]

\* marshal(end), were the mapping to run from the start of the line
MarshalFromLineStart(text, ln, ls, st, end) ==
    [linum   |-> ln,
     line    |-> [start |-> ls, end |-> end],
     nesting |-> st.nesting,
     label   |-> st.label,
     mapping |-> IF st.state = "Mapping" \/ st.state = "MappingWs"
                 THEN Some(Substring(text, ls, st.mappingEnd))
                 ELSE Null]

\* marshal(end), called only when hasLabel()
Marshal(text, ln, ls, st, end) ==
    [linum   |-> ln,
     line    |-> [start |-> ls, end |-> end],
     nesting |-> st.nesting,
     label   |-> st.label,
     mapping |-> IF st.state = "Mapping" \/ st.state = "MappingWs"
                 THEN Some(Substring(text, st.mappingStart, st.mappingEnd))
                 ELSE Null]

\* throwError(msg), were the excerpt to stop at the start of the token being
\* processed
TagErrorToTokenStart(kind, text, ln, ls, tok) ==
    [kind |-> kind, linum |-> ln, excerpt |-> Substring(text, ls, tok.start)]

\* throwError(msg): the error carries the line number and the text from the
\* start of the line to the end of the token being processed
TagError(kind, text, ln, ls, tok) ==
    [kind |-> kind, linum |-> ln, excerpt |-> Substring(text, ls, tok.end)]

\* devAssert(false) of a development build
AssertionError == [kind |-> "assert"]

\* The pop loop, were it to settle on the nearest shorter level instead of
\* throwing
RECURSIVE PopUntilShorter(_, _)
PopUntilShorter(stack, ws) ==
    IF stack = <<>> THEN [kind |-> "typeerror", stack |-> stack]
    ELSE IF ws = stack[Len(stack)] \/ Len(ws) >= Len(stack[Len(stack)])
         THEN [kind |-> "none", stack |-> stack]
    ELSE PopUntilShorter(SubSeq(stack, 1, Len(stack) - 1), ws)

\* The pop loop, were it to throw only on a top shorter than ws
RECURSIVE PopUntilMatchStrict(_, _)
PopUntilMatchStrict(stack, ws) ==
    IF stack = <<>> THEN [kind |-> "typeerror", stack |-> stack]
    ELSE IF ws = stack[Len(stack)] THEN [kind |-> "none", stack |-> stack]
    ELSE IF Len(ws) > Len(stack[Len(stack)])
         THEN [kind |-> "inconsistent", stack |-> stack]
    ELSE PopUntilMatchStrict(SubSeq(stack, 1, Len(stack) - 1), ws)

\* The pop loop, were it to stop at the longest level that ws starts with
RECURSIVE PopUntilPrefix(_, _)
PopUntilPrefix(stack, ws) ==
    IF stack = <<>> THEN [kind |-> "typeerror", stack |-> stack]
    ELSE IF StartsWith(ws, stack[Len(stack)]) THEN [kind |-> "none", stack |-> stack]
    ELSE PopUntilPrefix(SubSeq(stack, 1, Len(stack) - 1), ws)

\* The pop loop, were it never to throw
RECURSIVE PopUntilMatchNoThrow(_, _)
PopUntilMatchNoThrow(stack, ws) ==
    IF stack = <<>> THEN [kind |-> "typeerror", stack |-> stack]
    ELSE IF ws = stack[Len(stack)] THEN [kind |-> "none", stack |-> stack]
    ELSE PopUntilMatchNoThrow(SubSeq(stack, 1, Len(stack) - 1), ws)

\* computeNesting, the while loop of the else branch: pops until the top is
\* ws, throws when the top is at most as long as ws and differs from it.  On
\* an emptied stack the top is undefined and reading its length throws.
RECURSIVE PopUntilMatch(_, _)
PopUntilMatch(stack, ws) ==
    IF stack = <<>> THEN [kind |-> "typeerror", stack |-> stack]
    ELSE IF ws = Top(stack) THEN [kind |-> "none", stack |-> stack]
    ELSE IF Len(ws) >= Len(Top(stack))
         THEN [kind |-> "inconsistent", stack |-> stack]
    ELSE PopUntilMatch(Pop(stack), ws)

\* computeNesting, were it to push without comparing ws to the top
ComputeNestingAlwaysPush(stack, ws) ==
    IF stack = <<>> THEN [kind |-> "first", stack |-> stack]
    ELSE IF StartsWith(ws, Top(stack))
         THEN [kind |-> "none", stack |-> Append(stack, ws)]
    ELSE PopUntilMatch(stack, ws)

\* computeNesting, were an empty stack to take the first indented line as
\* the top level
ComputeNestingFirstAsTop(stack, ws) ==
    IF stack = <<>> THEN [kind |-> "none", stack |-> <<ws>>]
    ELSE IF StartsWith(ws, Top(stack))
         THEN [kind  |-> "none",
               stack |-> IF ws # Top(stack) THEN Append(stack, ws) ELSE stack]
    ELSE PopUntilMatch(stack, ws)

\* computeNesting, were an empty stack to take the first indented line as
\* a level below an implicit top level
ComputeNestingPushFirst(stack, ws) ==
    IF stack = <<>> THEN [kind |-> "none", stack |-> << <<>>, ws >>]
    ELSE IF StartsWith(ws, Top(stack))
         THEN [kind  |-> "none",
               stack |-> IF ws # Top(stack) THEN Append(stack, ws) ELSE stack]
    ELSE PopUntilMatch(stack, ws)

\* The levels a stack gains when every code unit of ws beyond its top opens
\* a level of its own
RECURSIVE PushEachUnit(_, _)
PushEachUnit(stack, ws) ==
    IF Len(stack[Len(stack)]) >= Len(ws) THEN stack
    ELSE PushEachUnit(Append(stack, SubSeq(ws, 1, Len(stack[Len(stack)]) + 1)), ws)

\* computeNesting, were the nesting to follow the width of the whitespace
ComputeNestingByWidth(stack, ws) ==
    IF stack = <<>> THEN [kind |-> "first", stack |-> stack]
    ELSE IF StartsWith(ws, Top(stack))
         THEN [kind |-> "none", stack |-> PushEachUnit(stack, ws)]
    ELSE PopUntilMatch(stack, ws)

\* computeNesting, were whitespace that does not extend the top to open a
\* level all the same
ComputeNestingPushOnMismatch(stack, ws) ==
    IF stack = <<>> THEN [kind |-> "first", stack |-> stack]
    ELSE IF ws = Top(stack) THEN [kind |-> "none", stack |-> stack]
    ELSE [kind |-> "none", stack |-> Append(stack, ws)]

\* computeNesting, were whitespace that extends the top to take its place
ComputeNestingReplaceTop(stack, ws) ==
    IF stack = <<>> THEN [kind |-> "first", stack |-> stack]
    ELSE IF StartsWith(ws, Top(stack))
         THEN [kind  |-> "none",
               stack |-> IF Len(stack) > 1 THEN Append(Pop(stack), ws)
                         ELSE IF ws # Top(stack) THEN Append(stack, ws) ELSE stack]
    ELSE PopUntilMatch(stack, ws)

\* computeNesting, were whitespace equal to the top to close its level
ComputeNestingEqualPops(stack, ws) ==
    IF stack = <<>> THEN [kind |-> "first", stack |-> stack]
    ELSE IF StartsWith(ws, Top(stack))
         THEN [kind  |-> "none",
               stack |-> IF ws # Top(stack) THEN Append(stack, ws) ELSE Pop(stack)]
    ELSE PopUntilMatch(stack, ws)

\* computeNesting(): the stack it leaves and the error it throws, if any;
\* the value it returns is the length of that stack minus one.
ComputeNesting(stack, ws) ==
    IF stack = <<>> THEN [kind |-> "first", stack |-> stack]
    ELSE IF StartsWith(ws, Top(stack))
         THEN [kind  |-> "none",
               stack |-> IF ws # Top(stack) THEN Append(stack, ws) ELSE stack]
    ELSE PopUntilMatch(stack, ws)

\* case 'ws', were mappingStart the start of the <ws> token after the label
WsStateFromWsStart(st, tok) ==
    CASE st.state = "LineBreak" -> [state |-> "BeginWs"]
      [] st.state = "Label" ->
            [state |-> "LabelWs", nesting |-> st.nesting, label |-> st.label,
             mappingStart |-> tok.start]
      [] st.state = "Mapping" ->
            [state |-> "MappingWs", nesting |-> st.nesting, label |-> st.label,
             mappingStart |-> st.mappingStart, mappingEnd |-> st.mappingEnd]
      [] OTHER -> [kind |-> "assert"]

\* case 'ws', were whitespace after the label to leave the state Label
WsStateStaysLabel(st, tok) ==
    CASE st.state = "LineBreak" -> [state |-> "BeginWs"]
      [] st.state = "Label" -> st
      [] st.state = "Mapping" ->
            [state |-> "MappingWs", nesting |-> st.nesting, label |-> st.label,
             mappingStart |-> st.mappingStart, mappingEnd |-> st.mappingEnd]
      [] OTHER -> [kind |-> "assert"]

\* case 'ws': the next line state; the default branch asserts
WsState(st, tok) ==
    CASE st.state = "LineBreak" -> [state |-> "BeginWs"]
      [] st.state = "Label" ->
            [state |-> "LabelWs", nesting |-> st.nesting, label |-> st.label,
             mappingStart |-> tok.end]
      [] st.state = "Mapping" ->
            [state |-> "MappingWs", nesting |-> st.nesting, label |-> st.label,
             mappingStart |-> st.mappingStart, mappingEnd |-> st.mappingEnd]
      [] OTHER -> AssertionError

\* case 'nonws', were the label to run from the token's start to the end of
\* the text (substring without its second argument)
LabelStateToEnd(text, tok, nesting) ==
    [state |-> "Label", nesting |-> nesting,
     label |-> Substring(text, tok.start, Len(text))]

\* case 'nonws', were the nesting the depth of the stack
LabelStateDepth(text, tok, nesting) ==
    [state |-> "Label", nesting |-> nesting + 1,
     label |-> Substring(text, tok.start, tok.end)]

\* case 'nonws', state LineBreak or BeginWs: the Label state of a line whose
\* nesting is known
LabelState(text, tok, nesting) ==
    [state |-> "Label", nesting |-> nesting,
     label |-> Substring(text, tok.start, tok.end)]

\* case 'nonws', state LabelWs or MappingWs, were the state to stay one of
\* trailing whitespace
MappingStateKeepWs(st, tok) ==
    [state |-> "MappingWs", nesting |-> st.nesting, label |-> st.label,
     mappingStart |-> st.mappingStart, mappingEnd |-> tok.end]

\* case 'nonws', state LabelWs or MappingWs
MappingState(st, tok) ==
    [state |-> "Mapping", nesting |-> st.nesting, label |-> st.label,
     mappingStart |-> st.mappingStart, mappingEnd |-> tok.end]

\* the wsStack a top-level line leaves, were the levels of earlier lines
\* kept
TopLevelStackKeepLevels == IF wsStack = <<>> THEN << <<>> >> ELSE wsStack

\* the wsStack a top-level line leaves: length = 0, then push('')
TopLevelStack == << <<>> >>

LineBreakState == [state |-> "LineBreak"]

-----------------------------------------------------------------------------
(* parse: the generator *)

\* The tokens parse has received or can receive without a pull of lex: its
\* argument tags when that is an array of tokens, and the tokens lex has
\* yielded when it is the generator lex(str) (parseDefault)
Stream == IF lexpc = "idle" THEN tags ELSE lexed

Running == pc = "run" /\ pos < Len(Stream)
Cur == Stream[pos + 1]

\* a throw, were parse to note the error and go on with the next token
ThrowAndGoOn(e) ==
    /\ err' = e
    /\ pc' = "run"

\* throw: the generator ends with the error
Throw(e) ==
    /\ err' = e
    /\ pc' = "error"

\* the statements after the yield of case 'nl', were linum to advance by
\* the length of the <nl> token
NextLineByLength(tok) ==
    /\ linum' = linum + (tok.end - tok.start)
    /\ lineStart' = tok.end
    /\ s' = [state |-> "LineBreak"]

\* the statements after the yield of case 'nl', were linum to advance only
\* after a line without a label
NextLineBlankOnly(tok) ==
    /\ linum' = IF s.state = "LineBreak" \/ s.state = "BeginWs"
                THEN linum + 1 ELSE linum
    /\ lineStart' = tok.end
    /\ s' = [state |-> "LineBreak"]

\* the statements after the yield of case 'nl', were the next line to start
\* at the start of the <nl> token
NextLineFromBreakStart(tok) ==
    /\ linum' = linum + 1
    /\ lineStart' = tok.start
    /\ s' = [state |-> "LineBreak"]

\* the statements after the yield of case 'nl'
NextLine(tok) ==
    /\ linum' = linum + 1
    /\ lineStart' = tok.end
    /\ s' = LineBreakState

\* case 'nl', were a line of whitespace only to reset the stack
NlBlankLineResets ==
    /\ Running
    /\ Cur.tag = "nl"
    /\ pos' = pos + 1
    /\ IF HasLabel(s)
       THEN /\ out' = Append(out, Marshal(str, linum, lineStart, s, Cur.end))
            /\ pc' = "yield"
            /\ UNCHANGED <<linum, lineStart, s>>
       ELSE /\ NextLine(Cur)
            /\ UNCHANGED <<out, pc>>
    /\ wsStack' = IF s.state = "BeginWs" /\ wsStack # <<>>
                  THEN << <<>> >> ELSE wsStack
    /\ UNCHANGED <<str, tags, tree, err>>
    /\ UNCHANGED <<lexVars, other>>

\* case 'nl': a line with a label yields its record and the generator is
\* suspended at the yield; any other line is closed at once.
Nl ==
    /\ Running
    /\ Cur.tag = "nl"
    /\ pos' = pos + 1
    /\ IF HasLabel(s)
       THEN /\ out' = Append(out, Marshal(str, linum, lineStart, s, Cur.end))
            /\ pc' = "yield"
            /\ UNCHANGED <<linum, lineStart, s>>
       ELSE /\ NextLine(Cur)
            /\ UNCHANGED <<out, pc>>
    /\ UNCHANGED <<str, tags, tree, wsStack, err>>
    /\ UNCHANGED <<lexVars, other>>

\* the consumer asks for the next record: the generator resumes after the
\* yield of case 'nl'
Resume ==
    /\ pc = "yield"
    /\ NextLine(Stream[pos])
    /\ pc' = "run"
    /\ UNCHANGED <<str, tags, tree, pos, wsStack, out, err>>
    /\ UNCHANGED <<lexVars, other>>

\* case 'ws', were leading whitespace to move the start of the line past it
WsMovesLineStart ==
    /\ Running
    /\ Cur.tag = "ws"
    /\ pos' = pos + 1
    /\ lineStart' = IF s.state = "LineBreak" THEN Cur.end ELSE lineStart
    /\ LET next == WsState(s, Cur)
       IN  IF next = AssertionError
           THEN Throw(next) /\ UNCHANGED s
           ELSE s' = next /\ UNCHANGED <<err, pc>>
    /\ UNCHANGED <<str, tags, tree, linum, wsStack, out>>
    /\ UNCHANGED <<lexVars, other>>

\* case 'ws'
Ws ==
    /\ Running
    /\ Cur.tag = "ws"
    /\ pos' = pos + 1
    /\ LET next == WsState(s, Cur)
       IN  IF next = AssertionError
           THEN Throw(next) /\ UNCHANGED s
           ELSE s' = next /\ UNCHANGED <<err, pc>>
    /\ UNCHANGED <<str, tags, tree, linum, lineStart, wsStack, out>>
    /\ UNCHANGED <<lexVars, other>>

\* case 'nonws'
Nonws ==
    /\ Running
    /\ Cur.tag = "nonws"
    /\ pos' = pos + 1
    /\ CASE s.state = "LineBreak" ->
                /\ wsStack' = TopLevelStack
                /\ s' = LabelState(str, Cur, 0)
                /\ UNCHANGED <<err, pc>>
         [] s.state = "BeginWs" ->
                LET r == ComputeNesting(wsStack,
                                        Substring(str, lineStart, Cur.start))
                IN  /\ wsStack' = r.stack
                    /\ IF r.kind = "none"
                       THEN /\ s' = LabelState(str, Cur, Len(r.stack) - 1)
                            /\ UNCHANGED <<err, pc>>
                       ELSE /\ Throw(TagError(r.kind, str, linum, lineStart, Cur))
                            /\ UNCHANGED s
         [] s.state = "LabelWs" \/ s.state = "MappingWs" ->
                /\ s' = MappingState(s, Cur)
                /\ UNCHANGED <<wsStack, err, pc>>
         [] OTHER ->
                /\ Throw(AssertionError)
                /\ UNCHANGED <<s, wsStack>>
    /\ UNCHANGED <<str, tags, tree, linum, lineStart, out>>
    /\ UNCHANGED <<lexVars, other>>

\* the end of the token stream, were the last line never to yield
FinishNoRecord ==
    /\ pc = "run"
    /\ pos = Len(Stream)
    /\ lexpc # "run"
    /\ pc' = "done"
    /\ UNCHANGED <<str, tags, tree, pos, linum, lineStart, s, wsStack, out, err>>
    /\ UNCHANGED <<lexVars, other>>

\* the token stream is exhausted (an array at its end, lex returned): the
\* last line, if it has a label, yields
\* its record, and the generator returns
Finish ==
    /\ pc = "run"
    /\ pos = Len(Stream)
    /\ lexpc # "run"
    /\ out' = IF HasLabel(s)
              THEN Append(out, Marshal(str, linum, lineStart, s, Len(str)))
              ELSE out
    /\ pc' = "done"
    /\ UNCHANGED <<str, tags, tree, pos, linum, lineStart, s, wsStack, err>>
    /\ UNCHANGED <<lexVars, other>>

\* the locals of parse before its first token
Start(text, l, forest) ==
    /\ str = text
    /\ tags = l
    /\ tree = forest
    /\ pos = 0
    /\ linum = 1
    /\ lineStart = 0
    /\ s = LineBreakState
    /\ wsStack = <<>>
    /\ out = <<>>
    /\ err = NoError
    /\ pc = "run"
    /\ last = 0
    /\ lastIndex = 0
    /\ lexed = <<>>
    /\ lexpc = "idle"
    /\ other = Null

Init ==
    \/ \E fs \in TokenInputs \cup LineInputs \cup TailInputs :
            Start(Raw(fs), Tokens(fs), Null)
    \/ \E t \in TreeInputs :
            Start(Raw(Accumulate(t)), Tokens(Accumulate(t)), Some(t))

Next == Nl \/ Resume \/ Ws \/ Nonws \/ Finish

Spec == Init /\ [][Next]_vars

-----------------------------------------------------------------------------
(* lex: the regular expression *)

\* The code units of the model, by name.  HI and LO are the two halves of a
\* surrogate pair, x85 is NEL, xA0 the no-break space, u2028 and u2029 the
\* line and the paragraph separator, u3000 the ideographic space.
AllChars ==
    {"TB", "LF", "VT", "FF", "CR", "SP", "x85", "xA0", "u2028", "u2029",
     "u3000", "NUL", "a", "b", "HI", "LO"}

\* the class of line breaks, were the vertical tab one of them
ReNlClassWithVT == {"LF", "VT", "FF", "CR", "x85", "u2028", "u2029"}

\* [\n\f\r\x85\u2028\u2029]
ReNlClass == {"LF", "FF", "CR", "x85", "u2028", "u2029"}

\* \p{White_Space}
ReWhiteSpace ==
    {"TB", "LF", "VT", "FF", "CR", "SP", "x85", "xA0", "u2028", "u2029", "u3000"}

\* [\p{White_Space}--[\n\f\r\x85\u2028\u2029]]
ReWsClass == ReWhiteSpace \ ReNlClass

\* \P{White_Space}
ReNonwsClass == AllChars \ ReWhiteSpace

\* A quantifier +, were it to take one code unit only
RunEndOne(text, at, class) == at + 1

\* A greedy quantifier + over a class: the end of the longest run of code
\* units of the class that starts at offset at, where one starts
RECURSIVE RunEnd(_, _, _)
RunEnd(text, at, class) ==
    IF at < Len(text) /\ text[at + 1] \in class
    THEN RunEnd(text, at + 1, class)
    ELSE at

\* re_lexer.exec, were the <nl> alternative a run of line breaks
ReExecNlRun(text, at) ==
    IF at >= Len(text) THEN <<>>
    ELSE IF text[at + 1] \in ReNlClass
         THEN <<[tag |-> "nl", end |-> RunEnd(text, at, ReNlClass)]>>
    ELSE IF text[at + 1] \in ReWsClass
         THEN <<[tag |-> "ws", end |-> RunEnd(text, at, ReWsClass)]>>
    ELSE <<[tag |-> "nonws", end |-> RunEnd(text, at, ReNonwsClass)]>>

\* re_lexer.exec, were the <nl> alternative without \r\n
ReExecNoPair(text, at) ==
    IF at >= Len(text) THEN <<>>
    ELSE IF text[at + 1] \in ReNlClass
         THEN <<[tag |-> "nl", end |-> at + 1]>>
    ELSE IF text[at + 1] \in ReWsClass
         THEN <<[tag |-> "ws", end |-> RunEnd(text, at, ReWsClass)]>>
    ELSE <<[tag |-> "nonws", end |-> RunEnd(text, at, ReNonwsClass)]>>

\* re_lexer.exec, were the <nonws> alternative to match letters only
ReExecRefutable(text, at) ==
    IF at >= Len(text) THEN <<>>
    ELSE IF at + 2 <= Len(text) /\ text[at + 1] = "CR" /\ text[at + 2] = "LF"
         THEN <<[tag |-> "nl", end |-> at + 2]>>
    ELSE IF text[at + 1] \in ReNlClass
         THEN <<[tag |-> "nl", end |-> at + 1]>>
    ELSE IF text[at + 1] \in ReWsClass
         THEN <<[tag |-> "ws", end |-> RunEnd(text, at, ReWsClass)]>>
    ELSE IF text[at + 1] \in {"a", "b"}
         THEN <<[tag |-> "nonws", end |-> RunEnd(text, at, {"a", "b"})]>>
    ELSE <<>>

\* re_lexer.exec(str) with lastIndex = at, and tag(): the regular expression
\* is sticky, so it matches at offset at or not at all; its alternatives are
\* tried in order, <nl> (\r\n before a single line break), <ws>, <nonws>.
\* Some(the tag of the group that matched and the new lastIndex), or Null.
ReExec(text, at) ==
    IF at >= Len(text) THEN Null
    ELSE IF at + 2 <= Len(text) /\ text[at + 1] = "CR" /\ text[at + 2] = "LF"
         THEN Some([tag |-> "nl", end |-> at + 2])
    ELSE IF text[at + 1] \in ReNlClass
         THEN Some([tag |-> "nl", end |-> at + 1])
    ELSE IF text[at + 1] \in ReWsClass
         THEN Some([tag |-> "ws", end |-> RunEnd(text, at, ReWsClass)])
    ELSE IF text[at + 1] \in ReNonwsClass
         THEN Some([tag |-> "nonws", end |-> RunEnd(text, at, ReNonwsClass)])
    ELSE Null

-----------------------------------------------------------------------------
(* lex: the generator *)

\* one pull, were last never to follow lastIndex
LexYieldStaleLast ==
    /\ lexpc = "run"
    /\ ReExec(str, lastIndex) # Null
    /\ LET match == ReExec(str, lastIndex)[1]
       IN  /\ lexed' = Append(lexed, [tag   |-> match.tag,
                                      start |-> last,
                                      end   |-> match.end])
           /\ lastIndex' = match.end
    /\ UNCHANGED <<str, parseVars, other, last, lexpc>>

\* The consumer pulls a token and the expression matches: last takes
\* lastIndex (it is 0 at the first pull), the token runs from last to the
\* new lastIndex, and the generator is suspended at the yield.
LexYield ==
    /\ lexpc = "run"
    /\ ReExec(str, lastIndex) # Null
    /\ LET match == ReExec(str, lastIndex)[1]
       IN  /\ last' = lastIndex
           /\ lexed' = Append(lexed, [tag   |-> match.tag,
                                      start |-> lastIndex,
                                      end   |-> match.end])
           /\ lastIndex' = match.end
    /\ UNCHANGED <<str, parseVars, other, lexpc>>

\* the return of lex, were lex free to return after a line break as well
LexReturnAtLineBreak ==
    /\ lexpc = "run"
    /\ \/ ReExec(str, lastIndex) = Null
       \/ lexed # <<>> /\ lexed[Len(lexed)].tag = "nl"
    /\ last' = lastIndex
    /\ lastIndex' = 0
    /\ lexpc' = "done"
    /\ UNCHANGED <<str, parseVars, other, lexed>>

\* The consumer pulls a token and the expression does not match: a sticky
\* expression that fails resets its lastIndex, and the generator returns.
LexReturn ==
    /\ lexpc = "run"
    /\ ReExec(str, lastIndex) = Null
    /\ last' = lastIndex
    /\ lastIndex' = 0
    /\ lexpc' = "done"
    /\ UNCHANGED <<str, parseVars, other, lexed>>

\* The code units most texts are made of: three line breaks, two
\* whitespaces, one other
CommonChars == {"CR", "LF", "FF", "SP", "VT", "a"}

\* The texts of at most n code units of a set
RECURSIVE TextsOver(_, _)
TextsOver(chars, n) ==
    IF n = 0 THEN {<<>>}
    ELSE LET shorter == TextsOver(chars, n - 1)
         IN  shorter \cup
             {Append(p[1], p[2]) :
                p \in {q \in shorter \X chars : Len(q[1]) = n - 1}}

LexTexts == TextsOver(CommonChars, MaxText) \cup TextsOver(AllChars, MaxShort)

\* lex(text) before its first pull; parse is not called
InitLex ==
    \E text \in LexTexts :
        /\ str = text
        /\ tags = <<>>
        /\ tree = Null
        /\ pos = 0
        /\ linum = 1
        /\ lineStart = 0
        /\ s = LineBreakState
        /\ wsStack = <<>>
        /\ out = <<>>
        /\ err = NoError
        /\ pc = "idle"
        /\ last = 0
        /\ lastIndex = 0
        /\ lexed = <<>>
        /\ lexpc = "run"
        /\ other = Null

NextLex == LexYield \/ LexReturn

SpecLex == InitLex /\ [][NextLex]_vars

\* lex under a consumer that pulls until lex returns (Array.from, for-of)
SpecLexFair == InitLex /\ [][NextLex]_vars /\ WF_vars(NextLex)

-----------------------------------------------------------------------------
(* parseDefault: parse over the generator lex(str) *)

\* the for-loop of parse asks lex for a token, were lex to run ahead of it
PullTokenAhead == LexYield

\* The for-loop of parse asks lex for its next token, which it does once it
\* is through with the tokens it has: lex runs up to its next yield.
PullToken ==
    /\ pc = "run"
    /\ pos = Len(lexed)
    /\ LexYield

\* The for-loop of parse asks lex for its next token and lex returns
PullEnd ==
    /\ pc = "run"
    /\ pos = Len(lexed)
    /\ LexReturn

DefaultTexts == TextsOver(CommonChars, MaxDefault)

\* parseDefault(text): parse(text, lex(text)) before the first pull
InitDefault ==
    \E text \in DefaultTexts :
        /\ str = text
        /\ tags = <<>>
        /\ tree = Null
        /\ pos = 0
        /\ linum = 1
        /\ lineStart = 0
        /\ s = LineBreakState
        /\ wsStack = <<>>
        /\ out = <<>>
        /\ err = NoError
        /\ pc = "run"
        /\ last = 0
        /\ lastIndex = 0
        /\ lexed = <<>>
        /\ lexpc = "run"
        /\ other = Null

NextDefault == PullToken \/ PullEnd \/ Nl \/ Resume \/ Ws \/ Nonws \/ Finish

SpecDefault == InitDefault /\ [][NextDefault]_vars

-----------------------------------------------------------------------------
(* Two invocations of parseDefault, advanced in turn *)

\* The arguments and locals of the invocation being advanced, and where its
\* generators stand
Invocation ==
    [str |-> str, tags |-> tags, tree |-> tree, pos |-> pos, linum |-> linum,
     lineStart |-> lineStart, s |-> s, wsStack |-> wsStack, out |-> out,
     err |-> err, pc |-> pc, last |-> last, lastIndex |-> lastIndex,
     lexed |-> lexed, lexpc |-> lexpc]

\* parseDefault(text) before the first pull
NewInvocation(text) ==
    [str |-> text, tags |-> <<>>, tree |-> Null, pos |-> 0, linum |-> 1,
     lineStart |-> 0, s |-> LineBreakState, wsStack |-> <<>>, out |-> <<>>,
     err |-> NoError, pc |-> "run", last |-> 0, lastIndex |-> 0,
     lexed |-> <<>>, lexpc |-> "run"]

\* the turn of the other invocation, were wsStack one array that all
\* invocations use
SwitchSharedStack ==
    /\ other # Null
    /\ other' = Some(Invocation)
    /\ str' = other[1].str
    /\ tags' = other[1].tags
    /\ tree' = other[1].tree
    /\ pos' = other[1].pos
    /\ linum' = other[1].linum
    /\ lineStart' = other[1].lineStart
    /\ s' = other[1].s
    /\ wsStack' = wsStack
    /\ out' = other[1].out
    /\ err' = other[1].err
    /\ pc' = other[1].pc
    /\ last' = other[1].last
    /\ lastIndex' = other[1].lastIndex
    /\ lexed' = other[1].lexed
    /\ lexpc' = other[1].lexpc

\* The consumers turn to the other invocation: every call of parse and of
\* lex has locals of its own, which stay as they are while the other
\* invocation is advanced.
Switch ==
    /\ other # Null
    /\ other' = Some(Invocation)
    /\ str' = other[1].str
    /\ tags' = other[1].tags
    /\ tree' = other[1].tree
    /\ pos' = other[1].pos
    /\ linum' = other[1].linum
    /\ lineStart' = other[1].lineStart
    /\ s' = other[1].s
    /\ wsStack' = other[1].wsStack
    /\ out' = other[1].out
    /\ err' = other[1].err
    /\ pc' = other[1].pc
    /\ last' = other[1].last
    /\ lastIndex' = other[1].lastIndex
    /\ lexed' = other[1].lexed
    /\ lexpc' = other[1].lexpc

PairChars == {"LF", "SP", "a"}

InitTwo ==
    \E text \in TextsOver(PairChars, MaxPair),
       otherText \in TextsOver(PairChars, MaxOther) :
        /\ str = text
        /\ tags = <<>>
        /\ tree = Null
        /\ pos = 0
        /\ linum = 1
        /\ lineStart = 0
        /\ s = LineBreakState
        /\ wsStack = <<>>
        /\ out = <<>>
        /\ err = NoError
        /\ pc = "run"
        /\ last = 0
        /\ lastIndex = 0
        /\ lexed = <<>>
        /\ lexpc = "run"
        /\ other = Some(NewInvocation(otherText))

NextTwo ==
    PullToken \/ PullEnd \/ Nl \/ Resume \/ Ws \/ Nonws \/ Finish \/ Switch

SpecTwo == InitTwo /\ [][NextTwo]_vars

-----------------------------------------------------------------------------
(* lex and parse run to their end *)

\* Array.from(lex(text)), from scan offset at on: the tokens lex yields
\* until the expression fails
RECURSIVE LexFrom(_, _)
LexFrom(text, at) ==
    LET match == ReExec(text, at)
    IN  IF match = Null THEN <<>>
        ELSE <<[tag |-> match[1].tag, start |-> at, end |-> match[1].end]>>
                \o LexFrom(text, match[1].end)

LexAll(text) == LexFrom(text, 0)

\* The locals of parse and what it has yielded and thrown, as one value
ParseLocals(ln, ls, st, stack, recs, e) ==
    [linum |-> ln, lineStart |-> ls, s |-> st, wsStack |-> stack,
     out |-> recs, err |-> e]

\* One turn of the for-loop of parse, on token tok
ParseToken(text, p, tok) ==
    IF p.err # NoError THEN p
    ELSE CASE tok.tag = "nl" ->
                ParseLocals(p.linum + 1, tok.end, LineBreakState, p.wsStack,
                            IF HasLabel(p.s)
                            THEN Append(p.out, Marshal(text, p.linum, p.lineStart,
                                                       p.s, tok.end))
                            ELSE p.out,
                            p.err)
           [] tok.tag = "ws" ->
                LET next == WsState(p.s, tok)
                IN  IF next = AssertionError
                    THEN [p EXCEPT !.err = next]
                    ELSE [p EXCEPT !.s = next]
           [] tok.tag = "nonws" ->
                CASE p.s.state = "LineBreak" ->
                        [p EXCEPT !.wsStack = << <<>> >>,
                                  !.s = LabelState(text, tok, 0)]
                  [] p.s.state = "BeginWs" ->
                        LET r == ComputeNesting(p.wsStack,
                                    Substring(text, p.lineStart, tok.start))
                        IN  IF r.kind = "none"
                            THEN [p EXCEPT !.wsStack = r.stack,
                                           !.s = LabelState(text, tok,
                                                            Len(r.stack) - 1)]
                            ELSE [p EXCEPT !.wsStack = r.stack,
                                           !.err = TagError(r.kind, text, p.linum,
                                                            p.lineStart, tok)]
                  [] p.s.state = "LabelWs" \/ p.s.state = "MappingWs" ->
                        [p EXCEPT !.s = MappingState(p.s, tok)]
                  [] OTHER -> [p EXCEPT !.err = AssertionError]

\* The for-loop of parse over the tokens l, from the locals p on
RECURSIVE ParseTokens(_, _, _)
ParseTokens(text, p, l) ==
    IF l = <<>> THEN p
    ELSE ParseTokens(text, ParseToken(text, p, Head(l)), Tail(l))

\* parse(text, l) iterated to its end: the records it yields and the error
\* it throws, if any
ParseAll(text, l) ==
    LET p == ParseTokens(text,
                ParseLocals(1, 0, LineBreakState, <<>>, <<>>, NoError), l)
    IN  [out |-> IF p.err = NoError /\ HasLabel(p.s)
                 THEN Append(p.out, Marshal(text, p.linum, p.lineStart, p.s,
                                            Len(text)))
                 ELSE p.out,
         err |-> p.err]

-----------------------------------------------------------------------------
(* The token stream, read line by line *)

\* The line a token is on: 1 + the <nl> tokens before it (a <nl> token is on
\* the line it ends)
LineOf(j) == 1 + Cardinality({i \in 1..(j - 1) : tags[i].tag = "nl"})

\* The <nonws> tokens of a line
ContentOf(line) ==
    {j \in 1..Len(tags) : tags[j].tag = "nonws" /\ LineOf(j) = line}

MinOf(S) == CHOOSE x \in S : \A y \in S : x <= y
MaxOf(S) == CHOOSE x \in S : \A y \in S : x >= y

\* The first <nonws> token of the whole stream, 0 without one
FirstContent ==
    LET C == {j \in 1..Len(tags) : tags[j].tag = "nonws"}
    IN  IF C = {} THEN 0 ELSE MinOf(C)

\* The lexer invariant holds of every input
InputConforms == LexerInvariant(str, tags)

-----------------------------------------------------------------------------
(* Nesting follows the forest *)

\* C1: for an input laid out as a forest (roots unindented, the children of
\* a parent indented by the parent's whitespace plus one shared non-empty
\* suffix, blank lines anywhere), parse throws nothing and yields one record
\* per node, in pre-order, whose nesting is the node's depth.
NestingFollowsTree ==
    tree # Null =>
        LET depths == WalkTreeNesting(tree[1])
        IN  /\ pc # "error"
            /\ Len(out) <= Len(depths)
            /\ \A i \in 1..Len(out) : out[i].nesting = depths[i]
            /\ pc = "done" => Len(out) = Len(depths)

\* A forest with a blank line was parsed to its end, and in it a line two
\* levels deep is followed by a line one level deep
NestingFollowsTreeWitness ==
    /\ tree # Null
    /\ pc = "done"
    /\ tree[1].prefix # <<>> \/ \E i \in 1..(Len(tree[1].toplevel) - 1) :
                                    Len(tree[1].toplevel[i].post) > 1
    /\ \E i \in 1..(Len(out) - 1) :
            out[i].nesting = 2 /\ out[i + 1].nesting = 1

-----------------------------------------------------------------------------
(* When parse throws *)

IsStrictPrefix(p, text) == StartsWith(text, p) /\ p # text

\* The leading whitespace of the line of the token being pulled
LeadingWs == Substring(str, lineStart, Cur.start)

\* No <nonws> token pulled so far was the first token of its line
NoTopLevelLineYet ==
    \A j \in 1..pos :
        tags[j].tag = "nonws" => j > 1 /\ tags[j - 1].tag # "nl"

\* C2: parse throws exactly when the first <nonws> token of a line follows
\* leading whitespace ws and either no unindented content line came before
\* or ws neither is an entry of the whitespace stack nor strictly extends
\* its top; no other step throws.
ThrowsExactlyOnBadIndent ==
    [][(pc' = "error") <=>
        /\ Running
        /\ Cur.tag = "nonws"
        /\ pos > 0
        /\ tags[pos].tag = "ws"
        /\ pos = 1 \/ tags[pos - 1].tag = "nl"
        /\ \/ NoTopLevelLineYet
           \/ /\ \A i \in 1..Len(wsStack) : wsStack[i] # LeadingWs
              /\ ~IsStrictPrefix(Top(wsStack), LeadingWs)]_vars

\* parse threw on whitespace that is shorter than the top of a stack of two
\* levels and is on no level
ThrowsExactlyOnBadIndentWitness ==
    /\ pc = "error"
    /\ err.kind = "inconsistent"
    /\ Len(out) >= 2
    /\ out[Len(out)].nesting = 1
    /\ Len(wsStack) = 1

\* C3: when the first line with a <nonws> token begins with a <ws> token,
\* parse throws on that <nonws> token, reports the number of that line
\* (1 + the <nl> tokens before it) and has yielded no record.
FirstLineIndentedThrows ==
    (FirstContent > 1 /\ tags[FirstContent - 1].tag = "ws" /\ pos >= FirstContent) =>
        /\ pc = "error"
        /\ pos = FirstContent
        /\ err.kind = "first"
        /\ err.linum = LineOf(FirstContent)
        /\ out = <<>>

\* parse threw on an indented first content line below a blank line
FirstLineIndentedThrowsWitness ==
    /\ pc = "error"
    /\ err.kind = "first"
    /\ err.linum >= 2
    /\ FirstContent = pos

-----------------------------------------------------------------------------
(* Label and mapping *)

TextOf(tok) == Substring(str, tok.start, tok.end)

\* The tokens of a line, its <nl> token included
TokensOf(line) == {j \in 1..Len(tags) : LineOf(j) = line}

\* The second <nonws> token of a line with two or more
SecondContent(line) == MinOf(ContentOf(line) \ {MinOf(ContentOf(line))})

\* C4: the label of every record is the text of the first <nonws> token of
\* the record's line, which is the first token of the line or the second
\* after one leading <ws> token.
LabelIsFirstContent ==
    \A k \in 1..Len(out) :
        LET C     == ContentOf(out[k].linum)
            first == MinOf(TokensOf(out[k].linum))
        IN  /\ C # {}
            /\ out[k].label = TextOf(tags[MinOf(C)])
            /\ \/ MinOf(C) = first
               \/ MinOf(C) = first + 1 /\ tags[first].tag = "ws"

\* a record of an indented line whose label differs from the label of the
\* record before it
LabelIsFirstContentWitness ==
    \E k \in 2..Len(out) :
        /\ out[k].nesting = 1
        /\ out[k].label = <<"b", "b">>
        /\ out[k - 1].label = <<"a">>

\* C5: a mapping that is not null is the text from the start of the second
\* <nonws> token of the record's line to the end of its last <nonws> token.
MappingSpansSecondToLast ==
    \A k \in 1..Len(out) :
        out[k].mapping # Null =>
            LET C == ContentOf(out[k].linum)
            IN  /\ Cardinality(C) >= 2
                /\ out[k].mapping[1] =
                        Substring(str, tags[SecondContent(out[k].linum)].start,
                                  tags[MaxOf(C)].end)

\* a record whose mapping holds whitespace, on a line that ends in
\* whitespace
MappingSpansSecondToLastWitness ==
    \E k \in 1..Len(out) :
        /\ out[k].mapping # Null
        /\ \E i \in 1..Len(out[k].mapping[1]) :
                out[k].mapping[1][i] \in {"SP", "TB"}
        /\ \E j \in TokensOf(out[k].linum) :
                tags[j].tag = "ws" /\ j > MaxOf(ContentOf(out[k].linum))

\* C6: the mapping of a record is null exactly when its line has one
\* <nonws> token, and a mapping that is not null is not empty.
MappingNullIffOneContent ==
    \A k \in 1..Len(out) :
        /\ out[k].mapping = Null <=> Cardinality(ContentOf(out[k].linum)) = 1
        /\ out[k].mapping # Null => out[k].mapping[1] # <<>>

\* a record without mapping of a line that is a label and whitespace after it
MappingNullIffOneContentWitness ==
    \E k \in 1..Len(out) :
        /\ out[k].mapping = Null
        /\ \E j \in TokensOf(out[k].linum) :
                tags[j].tag = "ws" /\ j > MinOf(ContentOf(out[k].linum))

-----------------------------------------------------------------------------
(* Line spans and line numbers *)

\* C7: the record yielded on a <nl> token has the start of that token as
\* the end of its line, so that the line leaves out the line break.
LineEndsBeforeLineBreak ==
    pc = "yield" => out[Len(out)].line.end = tags[pos].start

\* The lines with a <nonws> token, among the lines of the tokens pulled
ContentLines == {LineOf(j) : j \in {i \in 1..Len(tags) : tags[i].tag = "nonws"}}

\* C8: a parse that ends without error has yielded one record for each line
\* with a <nonws> token and none for any other line, in the order of the
\* lines, and the linum of each record is 1 + the <nl> tokens before the
\* line (a <nl> token of two code units counts once).
OneRecordPerContentLine ==
    pc = "done" =>
        /\ {out[k].linum : k \in 1..Len(out)} = ContentLines
        /\ Len(out) = Cardinality(ContentLines)
        /\ \A k \in 1..(Len(out) - 1) : out[k].linum < out[k + 1].linum

\* a finished parse of two content lines with a blank line between them and
\* a line break of two code units before the second
OneRecordPerContentLineWitness ==
    /\ pc = "done"
    /\ \E k \in 1..(Len(out) - 1) : out[k + 1].linum > out[k].linum + 1
    /\ \E j \in 1..Len(tags) :
            /\ tags[j].tag = "nl"
            /\ tags[j].end = tags[j].start + 2
            /\ LineOf(j) < out[Len(out)].linum

\* C9: the linum of the records is at least 1 and strictly increasing.
LinumStrictlyIncreases ==
    /\ \A k \in 1..Len(out) : out[k].linum >= 1
    /\ \A k \in 1..(Len(out) - 1) : out[k].linum < out[k + 1].linum

\* three records were yielded
LinumStrictlyIncreasesWitness == Len(out) >= 3

\* C10: the first record has nesting 0.
FirstRecordTopLevel == Len(out) >= 1 => out[1].nesting = 0

\* a first record of a line below a blank line of whitespace, with an
\* indented record after it
FirstRecordTopLevelWitness ==
    /\ Len(out) >= 2
    /\ out[1].linum >= 2
    /\ tags[1].tag = "ws"
    /\ out[2].nesting = 1

-----------------------------------------------------------------------------
(* Nesting from record to record, empty output, the last line *)

\* C11: from each record to the next the nesting rises by at most one.
NestingRisesByAtMostOne ==
    \A k \in 1..(Len(out) - 1) : out[k + 1].nesting <= out[k].nesting + 1

\* a record one level deeper than the record before it, with a blank line
\* between the two, and a record two levels or more shallower than the
\* record before it
NestingRisesByAtMostOneWitness ==
    /\ \E k \in 1..(Len(out) - 1) :
            /\ out[k + 1].nesting = out[k].nesting + 1
            /\ out[k + 1].linum > out[k].linum + 1
    /\ \E k \in 1..(Len(out) - 1) : out[k + 1].nesting + 2 <= out[k].nesting

\* C12: a parse that ends without error has yielded no record exactly when
\* the token stream holds no <nonws> token.
EmptyIffNoContent ==
    pc = "done" =>
        (out = <<>> <=> \A j \in 1..Len(tags) : tags[j].tag # "nonws")

\* a finished parse without record of a stream of blank lines, with and
\* without whitespace
EmptyIffNoContentWitness ==
    /\ pc = "done"
    /\ out = <<>>
    /\ \E j \in 1..Len(tags) : tags[j].tag = "ws"
    /\ \E j \in 1..(Len(tags) - 1) : tags[j].tag = "nl" /\ tags[j + 1].tag = "nl"

\* The states of a line with a label
LabelStates == {"Label", "LabelWs", "Mapping", "MappingWs"}

\* C13: when the token stream ends on a line with a label, parse yields one
\* last record, of that line, whose line ends at the length of the text;
\* when it ends in state LineBreak or BeginWs, parse yields nothing more.
LastLineYieldsAtEnd ==
    [][(pc = "run" /\ pc' = "done") =>
        IF s.state \in LabelStates
        THEN /\ Len(out') = Len(out) + 1
             /\ SubSeq(out', 1, Len(out)) = out
             /\ out'[Len(out')].line = [start |-> lineStart, end |-> Len(str)]
             /\ out'[Len(out')].linum = linum
             /\ out'[Len(out')].label = s.label
        ELSE /\ s.state \in {"LineBreak", "BeginWs"}
             /\ out' = out]_vars

\* a parse ended on a line with a mapping and whitespace after it, not on a
\* line break, after an earlier record
LastLineYieldsAtEndWitness ==
    /\ pc = "done"
    /\ s.state = "MappingWs"
    /\ Len(out) >= 1
    /\ out[Len(out)].line.end = Len(str)
    /\ out[Len(out)].mapping # Null

-----------------------------------------------------------------------------
(* Line spans *)

\* C14: the line of every record is a non-empty span of the text, and the
\* line of a record starts at or after the end of the line of the record
\* before it.
LineSpansOrdered ==
    /\ \A k \in 1..Len(out) :
            /\ 0 <= out[k].line.start
            /\ out[k].line.start < out[k].line.end
            /\ out[k].line.end <= Len(str)
    /\ \A k \in 1..(Len(out) - 1) : out[k + 1].line.start >= out[k].line.end

\* two records in a row, the first of a line ended by a line break of two
\* code units, the second of a line that starts later than the first ends
LineSpansOrderedWitness ==
    /\ Len(out) >= 2
    /\ \E k \in 1..(Len(out) - 1) :
            /\ out[k + 1].line.start > out[k].line.end
            /\ \E j \in 1..Len(tags) :
                    /\ tags[j].tag = "nl"
                    /\ tags[j].end = tags[j].start + 2
                    /\ tags[j].end = out[k].line.end

\* C15: label and mapping together are no longer than the line.
LabelAndMappingFitLine ==
    \A k \in 1..Len(out) :
        Len(out[k].label)
            + (IF out[k].mapping # Null THEN Len(out[k].mapping[1]) ELSE 0)
            <= out[k].line.end - out[k].line.start

\* a record of a last line without line break that is a label, one
\* whitespace and a mapping: label and mapping fill the line but for the
\* whitespace
LabelAndMappingFitLineWitness ==
    \E k \in 1..Len(out) :
        /\ out[k].mapping # Null
        /\ out[k].line.end = Len(str)
        /\ tags[Len(tags)].tag = "nonws"
        /\ Len(out[k].label) + Len(out[k].mapping[1]) + 1
                = out[k].line.end - out[k].line.start

-----------------------------------------------------------------------------
(* The tokens of lex *)

LexText(tok) == Substring(str, tok.start, tok.end)

\* C16: the tokens of lex partition the text: none is empty, the first
\* starts at 0, each ends where the next starts, and once lex has returned
\* the last ends at the length of the text, so that every code unit is in
\* exactly one token.
LexPartitionsText ==
    /\ \A i \in 1..Len(lexed) : lexed[i].start < lexed[i].end
    /\ Len(lexed) > 0 => lexed[1].start = 0
    /\ \A i \in 1..(Len(lexed) - 1) : lexed[i].end = lexed[i + 1].start
    /\ lexpc = "done" =>
        /\ Len(lexed) > 0 => lexed[Len(lexed)].end = Len(str)
        /\ \A u \in 0..(Len(str) - 1) :
            Cardinality({i \in 1..Len(lexed) :
                            lexed[i].start <= u /\ u < lexed[i].end}) = 1

\* lex returned after three tokens or more, one of them of several code
\* units
LexPartitionsTextWitness ==
    /\ lexpc = "done"
    /\ Len(lexed) >= 3
    /\ \E i \in 2..Len(lexed) : lexed[i].end > lexed[i].start + 1

\* C17: no two <ws> tokens and no two <nonws> tokens follow each other, as
\* each is a longest run: the code unit before it and the code unit after
\* it (once lex has gone past it) are not of its class.
NoAdjacentRuns ==
    /\ \A i \in 1..(Len(lexed) - 1) :
            /\ ~(lexed[i].tag = "ws" /\ lexed[i + 1].tag = "ws")
            /\ ~(lexed[i].tag = "nonws" /\ lexed[i + 1].tag = "nonws")
    /\ \A i \in 1..Len(lexed) :
        lexed[i].tag \in {"ws", "nonws"} =>
            LET class == IF lexed[i].tag = "ws"
                         THEN {"TB", "VT", "SP", "xA0", "u3000"}
                         ELSE {"NUL", "a", "b", "HI", "LO"}
            IN  /\ lexed[i].start > 0 => str[lexed[i].start] \notin class
                /\ lexed[i].end < Len(str) => str[lexed[i].end + 1] \notin class

\* two <nl> tokens in a row, and a <ws> token of two code units next to a
\* <nonws> token
NoAdjacentRunsWitness ==
    /\ \E i \in 1..(Len(lexed) - 1) : lexed[i].tag = "nl" /\ lexed[i + 1].tag = "nl"
    /\ \E i \in 1..(Len(lexed) - 1) :
            /\ lexed[i].tag = "ws"
            /\ lexed[i].end = lexed[i].start + 2
            /\ lexed[i + 1].tag = "nonws"

\* C18: a <nl> token is one code unit long, or two when its text is CR LF;
\* line breaks in a row are not merged otherwise.
LineBreakShape ==
    \A i \in 1..Len(lexed) :
        lexed[i].tag = "nl" =>
            \/ lexed[i].end = lexed[i].start + 1
            \/ /\ lexed[i].end = lexed[i].start + 2
               /\ LexText(lexed[i]) = <<"CR", "LF">>

\* a <nl> token of two code units after two <nl> tokens of one code unit
\* each, for the same line break twice
LineBreakShapeWitness ==
    \E i \in 3..Len(lexed) :
        /\ lexed[i].tag = "nl"
        /\ lexed[i].end = lexed[i].start + 2
        /\ LexText(lexed[i - 1]) = <<"LF">>
        /\ LexText(lexed[i - 2]) = <<"LF">>

\* The spans of the tokens, in order
LexSpans == [i \in 1..Len(lexed) |-> <<lexed[i].start, lexed[i].end>>]

\* C19: a CR with an LF right after it is one <nl> token of exactly these
\* two code units, a token CR is never followed by a token LF, and the
\* pairing goes from left to right: CR CR LF is CR, CRLF; CR LF LF is CRLF,
\* LF; LF CR is LF, CR.
CrLfIsOneToken ==
    /\ \A i \in 1..(Len(lexed) - 1) :
            ~(LexText(lexed[i]) = <<"CR">> /\ LexText(lexed[i + 1]) = <<"LF">>)
    /\ \A u \in 1..(Len(str) - 1) :
            (str[u] = "CR" /\ str[u + 1] = "LF" /\ (lexpc = "done" \/ lastIndex >= u)) =>
                \E i \in 1..Len(lexed) :
                    /\ lexed[i].tag = "nl"
                    /\ lexed[i].start = u - 1
                    /\ lexed[i].end = u + 1
    /\ lexpc = "done" =>
        /\ str = <<"CR", "CR", "LF">> => LexSpans = << <<0, 1>>, <<1, 3>> >>
        /\ str = <<"CR", "LF", "LF">> => LexSpans = << <<0, 2>>, <<2, 3>> >>
        /\ str = <<"LF", "CR">> => LexSpans = << <<0, 1>>, <<1, 2>> >>

\* lex returned on a text with CR CR LF and, later, CR LF LF
CrLfIsOneTokenWitness ==
    /\ lexpc = "done"
    /\ Len(str) >= 5
    /\ SubSeq(str, 1, 3) = <<"CR", "CR", "LF">>
    /\ SubSeq(str, 4, 5) = <<"LF", "CR">>

\* The class of a code unit, as the claim states it
ClassOf(c) ==
    IF c \in {"LF", "FF", "CR", "x85", "u2028", "u2029"} THEN "nl"
    ELSE IF c \in {"VT", "TB", "SP", "xA0", "u3000"} THEN "ws"
    ELSE "nonws"

\* C20: every code unit is in a token of the tag of its class: LF, FF, CR,
\* NEL, LS and PS in a <nl> token, any other White_Space (VT, tab and space
\* among them) in a <ws> token, anything else in a <nonws> token.
TokenTagIsClass ==
    \A i \in 1..Len(lexed) :
        \A u \in (lexed[i].start + 1)..lexed[i].end :
            lexed[i].tag = ClassOf(str[u])

\* lex returned on a vertical tab and a NEL: a <ws> token, then a <nl> token
TokenTagIsClassWitness ==
    /\ lexpc = "done"
    /\ str = <<"VT", "x85">>
    /\ Len(lexed) = 2
    /\ lexed[1].tag = "ws"
    /\ lexed[2].tag = "nl"

-----------------------------------------------------------------------------
(* The error of parse *)

IndentationErrors == {"first", "inconsistent"}

\* C22: when parse throws the indentation error on a line, it has yielded,
\* in order, the records of exactly the content lines before that line, it
\* yields none with the throw, and no step follows an error.
ErrorEndsSequence ==
    [][/\ err = NoError
       /\ err'.kind \in IndentationErrors =>
            LET before == {l \in ContentLines : l < LineOf(pos + 1)}
            IN  /\ out' = out
                /\ {out[k].linum : k \in 1..Len(out)} = before
                /\ Len(out) = Cardinality(before)
                /\ \A k \in 1..(Len(out) - 1) : out[k].linum < out[k + 1].linum]_vars

\* parse threw on the third content line, with a content line after it
ErrorEndsSequenceWitness ==
    /\ pc = "error"
    /\ err.kind \in IndentationErrors
    /\ Len(out) = 2
    /\ \E l \in ContentLines : l > err.linum

\* C23: the error reports the number of the offending line, 1 + the <nl>
\* tokens pulled before the throw, and the text from the start of that line
\* (the end of the last <nl> token pulled, or 0) to the end of the token
\* being processed, which is the first <nonws> token of the line.
ErrorReportsLine ==
    err.kind \in IndentationErrors =>
        LET nls  == {i \in 1..(pos - 1) : tags[i].tag = "nl"}
            from == IF nls = {} THEN 0 ELSE tags[MaxOf(nls)].end
        IN  /\ err.linum = 1 + Cardinality(nls)
            /\ err.excerpt = SubSeq(str, from + 1, tags[pos].end)
            /\ tags[pos].tag = "nonws"
            /\ pos = MinOf(ContentOf(LineOf(pos)))

\* parse threw below the first line on a label after whitespace of two code
\* units
ErrorReportsLineWitness ==
    /\ pc = "error"
    /\ err.kind = "inconsistent"
    /\ err.linum >= 2
    /\ Len(err.excerpt) = 3
    /\ tags[pos].start = lineStart + 2
    /\ lineStart > 0

-----------------------------------------------------------------------------
(* The line states and the whitespace stack *)

\* C27: on a token stream that satisfies the lexer invariant, a <ws> token
\* never arrives in state BeginWs, LabelWs or MappingWs and a <nonws> token
\* never arrives in state Label or Mapping: no devAssert(false) is reached.
AssertsNeverReached ==
    LexerInvariant(str, tags) =>
        /\ err # AssertionError
        /\ (Running /\ Cur.tag = "ws") =>
                s.state \in {"LineBreak", "Label", "Mapping"}
        /\ (Running /\ Cur.tag = "nonws") =>
                s.state \in {"LineBreak", "BeginWs", "LabelWs", "MappingWs"}

\* a line went through Label, LabelWs, Mapping, MappingWs and Mapping, and
\* a <ws> token has arrived after its third <nonws> token
AssertsNeverReachedWitness ==
    /\ pos >= 6
    /\ tags[pos - 5].tag = "nonws"
    /\ tags[pos - 4].tag = "ws"
    /\ tags[pos - 3].tag = "nonws"
    /\ tags[pos - 2].tag = "ws"
    /\ tags[pos - 1].tag = "nonws"
    /\ tags[pos].tag = "ws"
    /\ s.state = "MappingWs"
    /\ s.mappingEnd = tags[pos - 1].end
    /\ err = NoError

\* C28: the whitespace stack is empty, or its entry at index 0 is the empty
\* string and every entry is a strict prefix of the next.
WsStackIsPrefixChain ==
    \/ wsStack = <<>>
    \/ /\ wsStack[1] = <<>>
       /\ \A i \in 2..Len(wsStack) :
            /\ IsStrictPrefix(wsStack[i - 1], wsStack[i])
            /\ Len(wsStack[i - 1]) < Len(wsStack[i])

\* a stack of two entries after a pop: the line before had nesting 2
WsStackIsPrefixChainWitness ==
    /\ Len(wsStack) = 2
    /\ s.state = "Label"
    /\ s.nesting = 1
    /\ Len(out) >= 1
    /\ out[Len(out)].nesting = 2

\* C29: a <nonws> token that arrives in state LineBreak leaves the stack
\* [""] whatever it held, and gives the line nesting 0.
TopLevelResetsStack ==
    [][(Running /\ Cur.tag = "nonws" /\ s.state = "LineBreak") =>
        /\ wsStack' = << <<>> >>
        /\ s'.state = "Label"
        /\ s'.nesting = 0]_vars

\* a top-level line after a line of nesting 2: two levels are discarded
TopLevelResetsStackWitness ==
    /\ s.state = "Label"
    /\ s.nesting = 0
    /\ wsStack = << <<>> >>
    /\ Len(out) >= 1
    /\ out[Len(out)].nesting = 2

\* C30: leading whitespace that strictly extends the top of the stack is
\* pushed, nothing is popped, and the nesting of the line is that of the
\* content line before it + 1.
StrictExtensionPushesOnce ==
    [][(/\ Running
        /\ Cur.tag = "nonws"
        /\ s.state = "BeginWs"
        /\ wsStack # <<>>
        /\ IsStrictPrefix(Top(wsStack), LeadingWs)) =>
            /\ wsStack' = Append(wsStack, LeadingWs)
            /\ s'.state = "Label"
            /\ s'.nesting = Len(wsStack)
            /\ Len(out) >= 1
            /\ s'.nesting = out[Len(out)].nesting + 1]_vars

\* a line of nesting 2 whose whitespace is two code units longer than that
\* of the line of nesting 1 before it
StrictExtensionPushesOnceWitness ==
    /\ s.state = "Label"
    /\ s.nesting = 2
    /\ Len(wsStack) = 3
    /\ Len(wsStack[3]) = Len(wsStack[2]) + 2
    /\ out[Len(out)].nesting = 1

-----------------------------------------------------------------------------
(* lex comes to an end *)

\* C21: under a consumer that pulls to the end, lex returns; every pull
\* before that moves the scan offset forward by one code unit or more; when
\* lex returns the scan offset is the length of the text, and no token was
\* yielded exactly when the text is empty.
LexTerminates ==
    /\ <>(lexpc = "done")
    /\ [][\/ lexpc' = "done"
          \/ /\ lastIndex' > lastIndex
             /\ lexed'[Len(lexed')].end > lexed'[Len(lexed')].start]_vars
    /\ [](lexpc = "done" =>
            /\ last = Len(str)
            /\ (lexed = <<>>) <=> (str = <<>>))

\* lex returned on a text of a lone surrogate half and a NUL
LexTerminatesWitness ==
    /\ lexpc = "done"
    /\ str = <<"LO", "NUL">>
    /\ last = 2
    /\ Len(lexed) = 1

-----------------------------------------------------------------------------
(* parse over the lazy lex *)

IsPrefix(p, q) == Len(p) <= Len(q) /\ SubSeq(q, 1, Len(p)) = p

\* C24: when parse hands over the record of a line, the tokens pulled from
\* lex are those up to the <nl> token that ends the line, and lex has
\* scanned the text up to the end of that token and no further; the record
\* of a last line without line break is handed over once lex has returned.
\* While parse is suspended at a yield nothing is pulled: the only step is
\* the consumer asking for the next record.
NoLookahead ==
    /\ [](pc = "yield" =>
            /\ pos = Len(lexed)
            /\ lexed[pos].tag = "nl"
            /\ lastIndex = lexed[pos].end
            /\ lexpc = "run"
            /\ out[Len(out)].linum =
                    1 + Cardinality({i \in 1..(pos - 1) : lexed[i].tag = "nl"}))
    /\ [](pc = "done" => pos = Len(lexed) /\ lexpc = "done")
    /\ []((pc = "run" /\ lexpc = "run") => Len(lexed) <= pos + 1)
    /\ [][pc = "yield" =>
            /\ pc' = "run"
            /\ lexed' = lexed
            /\ lastIndex' = lastIndex
            /\ pos' = pos]_vars

\* parse is suspended at the yield of its first record, with a second
\* content line in the text that lex has not scanned
NoLookaheadWitness ==
    /\ pc = "yield"
    /\ Len(out) = 1
    /\ lastIndex = 2
    /\ Len(str) = 4
    /\ str[4] = "a"

\* C26: parseDefault(text), parse fed from lex one pull at a time, yields
\* the records and throws the error of parse(text, T), T the tokens of
\* lex(text) collected beforehand: what it has yielded is at any time the
\* beginning of the records of parse(text, T), and all of them, with the
\* same error or none, once it has ended.
DefaultIsParseOfLexed ==
    LET whole == ParseAll(str, LexAll(str))
    IN  /\ IsPrefix(out, whole.out)
        /\ pc \in {"done", "error"} =>
                /\ out = whole.out
                /\ err = whole.err
        /\ pc = "done" => whole.err = NoError

\* parseDefault ended after two records, the second of nesting 1
DefaultIsParseOfLexedWitness ==
    /\ pc = "done"
    /\ Len(out) = 2
    /\ out[2].nesting = 1
    /\ lexpc = "done"

-----------------------------------------------------------------------------
(* Invocations advanced in turn *)

\* What an invocation has yielded and thrown is what it yields and throws
\* when it is the only one
AsAlone(o) ==
    LET tokens == LexAll(o.str)
        whole  == ParseAll(o.str, tokens)
    IN  /\ IsPrefix(o.lexed, tokens)
        /\ o.lexpc = "done" => o.lexed = tokens
        /\ IsPrefix(o.out, whole.out)
        /\ o.pc \in {"done", "error"} =>
                /\ o.out = whole.out
                /\ o.err = whole.err
        /\ o.pc \notin {"done", "error"} => o.err = NoError

\* C25: of two invocations of parse over lex, on the same text or on two
\* texts, advanced in any order of turns, each yields the tokens and the
\* records and throws the error it yields and throws alone.
InvocationsIndependent ==
    /\ AsAlone(Invocation)
    /\ other # Null => AsAlone(other[1])

\* an invocation suspended at its first record of two, while the other
\* threw on its indented first line
InvocationsIndependentWitness ==
    /\ pc = "yield"
    /\ Len(out) = 1
    /\ lastIndex < Len(str)
    /\ other # Null
    /\ other[1].pc = "error"
    /\ other[1].err.kind = "first"

-----------------------------------------------------------------------------
(* computeNesting, branch by branch *)

\* The first <nonws> token of an indented line is about to be processed
\* and a top-level line came before
IndentedLineStarts ==
    /\ Running
    /\ Cur.tag = "nonws"
    /\ s.state = "BeginWs"
    /\ wsStack # <<>>

\* The dedent branch is about to be taken: the leading whitespace does not
\* start with the top of the stack
Dedents == IndentedLineStarts /\ ~StartsWith(LeadingWs, Top(wsStack))

\* C31: leading whitespace equal to the top of the stack leaves the stack as
\* it is, and the nesting of the line is that of the content line before.
EqualIndentKeepsStack ==
    [][(IndentedLineStarts /\ LeadingWs = Top(wsStack)) =>
            /\ wsStack' = wsStack
            /\ err' = NoError
            /\ s'.state = "Label"
            /\ Len(out) >= 1
            /\ s'.nesting = out[Len(out)].nesting]_vars

\* a second line of nesting 1 right after a line of nesting 1
EqualIndentKeepsStackWitness ==
    /\ s.state = "Label"
    /\ s.nesting = 1
    /\ Len(wsStack) = 2
    /\ Len(out) >= 2
    /\ out[Len(out)].nesting = 1
    /\ out[Len(out)].linum < linum

\* C32, as stated: in the dedent branch the entries popped are shorter than
\* ws, and the error is thrown exactly on an entry that differs from ws and
\* is at least as long as ws.
PopLoopThrowsOnLongerEntry ==
    [][Dedents =>
        LET k == Len(wsStack')
        IN  /\ k >= 1
            /\ wsStack' = SubSeq(wsStack, 1, k)
            /\ \A i \in (k + 1)..Len(wsStack) :
                    /\ wsStack[i] # LeadingWs
                    /\ ~(Len(wsStack[i]) >= Len(LeadingWs))
            /\ (err'.kind = "inconsistent") <=>
                    /\ wsStack[k] # LeadingWs
                    /\ Len(wsStack[k]) >= Len(LeadingWs)]_vars

\* C32, amended: in the dedent branch the entries popped differ from ws and
\* are longer than ws, and the error is thrown exactly on an entry that
\* differs from ws and is at most as long as ws.
PopLoopThrowsOnShorterEntry ==
    [][Dedents =>
        LET k == Len(wsStack')
        IN  /\ k >= 1
            /\ wsStack' = SubSeq(wsStack, 1, k)
            /\ \A i \in (k + 1)..Len(wsStack) :
                    /\ wsStack[i] # LeadingWs
                    /\ Len(wsStack[i]) > Len(LeadingWs)
            /\ (err'.kind = "inconsistent") <=>
                    /\ wsStack[k] # LeadingWs
                    /\ Len(LeadingWs) >= Len(wsStack[k])
            /\ (err' = NoError) <=> (wsStack[k] = LeadingWs)]_vars

\* parse threw on whitespace as long as the top of the stack and unlike it,
\* with nothing popped
PopLoopThrowsOnShorterEntryWitness ==
    /\ pc = "error"
    /\ err.kind = "inconsistent"
    /\ Len(wsStack) = 3
    /\ Len(Top(wsStack)) = tags[pos].start - lineStart
    /\ Top(wsStack) # Substring(str, lineStart, tags[pos].start)

\* C33: the dedent branch succeeds exactly when ws is an entry of the
\* stack; the entries above that entry are then removed, those up to it
\* stay, and the nesting of the line is its index.  Whitespace that
\* extends a lower level and is on no level is an error.
DedentNeedsExactLevel ==
    [][Dedents =>
        LET on == {i \in 1..Len(wsStack) : wsStack[i] = LeadingWs}
        IN  /\ (err' = NoError) <=> (on # {})
            /\ on # {} =>
                    /\ Cardinality(on) = 1
                    /\ \A i \in on :
                            /\ wsStack' = SubSeq(wsStack, 1, i)
                            /\ s'.state = "Label"
                            /\ s'.nesting = i - 1
            /\ on = {} => err'.kind = "inconsistent"]_vars

\* a line back at nesting 1 after a line of nesting 2
DedentNeedsExactLevelWitness ==
    /\ s.state = "Label"
    /\ s.nesting = 1
    /\ Len(wsStack) = 2
    /\ Len(out) >= 1
    /\ out[Len(out)].nesting = 2
    /\ err = NoError

\* C34: the pop loop ends on a match or on the error and leaves the bottom
\* entry in place: a stack that is not empty never becomes empty, and the
\* error of an indented first line is thrown only before the first record.
BottomEntryStays ==
    [][/\ wsStack # <<>> => (wsStack' # <<>> /\ wsStack'[1] = <<>>)
       /\ err'.kind \in {"none", "first", "inconsistent", "assert"}
       /\ err'.kind = "first" => (out' = <<>> /\ wsStack = <<>>)
       /\ Dedents => (err' = NoError \/ err'.kind = "inconsistent")]_vars

\* the pop loop went down to the bottom entry and threw there
BottomEntryStaysWitness ==
    /\ pc = "error"
    /\ err.kind = "inconsistent"
    /\ wsStack = << <<>> >>
    /\ Len(out) >= 2
    /\ out[Len(out)].nesting = 1

-----------------------------------------------------------------------------
(* The locals of parse, token by token *)

\* The tokens pulled since the last <nl> token pulled
SinceLineBreak == {j \in 1..pos : \A i \in j..pos : tags[i].tag # "nl"}

\* The <nonws> tokens pulled of the line parse is on: those after the last
\* <nl> token that closed a line
LineContent ==
    {j \in 1..pos : tags[j].tag = "nonws" /\ \A i \in j..(pos - 1) : tags[i].tag # "nl"}

\* C35: once the first <nonws> token of a line is processed without error,
\* the top of the stack is the leading whitespace of that line (the empty
\* string without any) and the nesting of the line is the depth of the
\* stack - 1; the nesting of every record is 0 or more.
TopIsLeadingWs ==
    /\ (HasLabel(s) /\ err = NoError) =>
            /\ wsStack # <<>>
            /\ Top(wsStack) = SubSeq(str, lineStart + 1, tags[MinOf(LineContent)].start)
            /\ s.nesting = Len(wsStack) - 1
    /\ \A k \in 1..Len(out) : out[k].nesting >= 0

\* the label of a line of nesting 2 behind whitespace of three code units
TopIsLeadingWsWitness ==
    /\ s.state = "Label"
    /\ s.nesting = 2
    /\ Len(Top(wsStack)) = 3
    /\ tags[pos].start = lineStart + 3

\* C36: the stack changes only on the first <nonws> token of a line: <nl>
\* and <ws> tokens and the later <nonws> tokens of a line leave it as it
\* is, and so does a blank line, whatever its whitespace.
StackChangesOnFirstContent ==
    [][wsStack' # wsStack =>
        /\ Running
        /\ Cur.tag = "nonws"
        /\ s.state \in {"LineBreak", "BeginWs"}
        /\ \A j \in SinceLineBreak : tags[j].tag # "nonws"]_vars

\* a line of whitespace unlike the top of a stack of two levels has ended
StackChangesOnFirstContentWitness ==
    /\ pc = "run"
    /\ s.state = "LineBreak"
    /\ Len(wsStack) = 2
    /\ pos >= 3
    /\ tags[pos].tag = "nl"
    /\ tags[pos - 1].tag = "ws"
    /\ tags[pos - 2].tag = "nl"
    /\ ~StartsWith(TextOf(tags[pos - 1]), Top(wsStack))
    /\ ~StartsWith(Top(wsStack), TextOf(tags[pos - 1]))

\* C37: on a token stream that satisfies the lexer invariant the line state
\* tells the tokens pulled since the last <nl> token: LineBreak for none,
\* BeginWs for one <ws> token, Label or LabelWs for one <nonws> token,
\* Mapping or MappingWs for two or more, the Ws states when the last token
\* is a <ws> token; mappingStart is the start of the second <nonws> token
\* of the line, mappingEnd the end of the last one, and mappingStart <
\* mappingEnd.
StateTracksLine ==
    (LexerInvariant(str, tags) /\ pc \in {"run", "done"}) =>
        LET content == {j \in SinceLineBreak : tags[j].tag = "nonws"}
            lastWs  == pos \in SinceLineBreak /\ tags[pos].tag = "ws"
        IN  /\ s.state = "LineBreak" <=> SinceLineBreak = {}
            /\ s.state = "BeginWs" <=>
                    (Cardinality(SinceLineBreak) = 1 /\ lastWs)
            /\ s.state \in {"Label", "LabelWs"} <=> Cardinality(content) = 1
            /\ s.state = "LabelWs" <=> (Cardinality(content) = 1 /\ lastWs)
            /\ s.state \in {"Mapping", "MappingWs"} <=> Cardinality(content) >= 2
            /\ s.state = "MappingWs" <=> (Cardinality(content) >= 2 /\ lastWs)
            /\ s.state \in {"Mapping", "MappingWs"} =>
                    /\ s.mappingStart = tags[MinOf(content \ {MinOf(content)})].start
                    /\ s.mappingEnd = tags[MaxOf(content)].end
                    /\ s.mappingStart < s.mappingEnd

\* whitespace after the third <nonws> token of a line
StateTracksLineWitness ==
    /\ pc = "run"
    /\ s.state = "MappingWs"
    /\ Cardinality({j \in SinceLineBreak : tags[j].tag = "nonws"}) = 3
    /\ tags[pos].tag = "ws"

\* The end of the last <nl> token before line ln, or 0
StartOfLine(ln) ==
    LET before == {i \in 1..Len(tags) : tags[i].tag = "nl" /\ LineOf(i) < ln}
    IN  IF before = {} THEN 0 ELSE tags[MaxOf(before)].end

\* C38: linum and lineStart change only when a <nl> token is consumed, linum
\* by 1 and lineStart to the end of that token; the line of every record
\* starts at 0 or at the end of the last <nl> token before it, and so
\* holds the leading whitespace of the line.
LineStartFollowsLineBreaks ==
    /\ [][(linum' # linum \/ lineStart' # lineStart) =>
            /\ pos' >= 1
            /\ tags[pos'].tag = "nl"
            /\ linum' = linum + 1
            /\ lineStart' = tags[pos'].end]_vars
    /\ [](\A k \in 1..Len(out) :
            /\ out[k].line.start = StartOfLine(out[k].linum)
            /\ out[k].line.start <= tags[MinOf(ContentOf(out[k].linum))].start)

\* the record of an indented second line, which starts at the end of the
\* line break of two code units before it
LineStartFollowsLineBreaksWitness ==
    /\ Len(out) = 2
    /\ out[2].nesting = 1
    /\ out[2].linum = 2
    /\ out[2].line.start = 3
    /\ tags[MinOf(ContentOf(2))].start > 3

=============================================================================
